---------------------------- MODULE Spec2Model ----------------------------
(***************************************************************************)
(* Attendance ingestion and delivery pipeline of the ZKTeco bridge server  *)
(* (src/unnamed/part_004, the variant with rush handling and polling,      *)
(* lines 675-1798).                                                        *)
(*                                                                         *)
(* Node runs every handler to its next await without interruption, so one  *)
(* action is one handler run from the event that starts it (an HTTP        *)
(* request, a timer, a promise settling) to its next suspension point.     *)
(* Handlers are written as functions from a record of the module-level     *)
(* state to the record after the run; the actions apply them.              *)
(***************************************************************************)
EXTENDS Integers, Sequences, FiniteSets, Bags, TLC

VARIABLES
    config,               \* RUSH_HANDLING_CONFIG
    pushQueue,            \* pushQueue: sequence of queue items, front first
    isProcessingQueue,    \* isProcessingQueue
    concurrentPushCount,  \* concurrentPushCount
    rushHandlingStats,    \* rushHandlingStats counters
    attendanceHistory,    \* attendanceHistory, newest first
    procTimers,           \* pending setTimeout(processQueue, 10) of addToProcessingQueue
    loops,                \* processQueue invocations suspended at an await
    inFlight,             \* processQueueItem invocations awaiting pushToExternalAPI
    retryTimers,          \* pending retry setTimeout of processQueueItem
    published,            \* external_api_push messages emitted, per record
    attempts,             \* pushToExternalAPI calls made by the worker, per record
    retryDelays,          \* delays of the retry timers set so far, per record
    paused,               \* the operator's last 'pause'/'resume' action was 'pause'
    now,                  \* the server clock, new Date()
    deviceLog,            \* the attendance log of the terminal, oldest first
    handles,              \* the Zkteco objects created so far and their sockets
    deviceInstance,       \* deviceInstance: 0 for null, else an index of handles
    connectionAttempts,   \* connectionAttempts
    initTimers,           \* pending calls of initializeDevice (timers, startup)
    initCalls,            \* initializeDevice invocations suspended at an await
    realTimeListenersActive, \* realTimeListenersActive
    pollingInterval,      \* the setInterval of initializeDevice is set
    device_connection,    \* status of the last device_connection message emitted
    pollTimers,           \* pending initial-poll timers of initializeDevice
    isPollingInProgress,  \* isPollingInProgress
    polls,                \* pollForNewAttendances invocations awaiting the fetch
    lastPolledTimestamp,  \* lastPolledTimestamp
    sockets,              \* the socket.io clients: what each has been sent
    skippedPolls          \* polls that returned at the in-progress test

pipelineVars ==
    <<config, pushQueue, isProcessingQueue, concurrentPushCount,
      rushHandlingStats, attendanceHistory, procTimers, loops, inFlight,
      retryTimers, published, attempts, retryDelays>>

linkVars ==
    <<handles, deviceInstance, connectionAttempts, initTimers, initCalls,
      realTimeListenersActive, pollingInterval, device_connection,
      pollTimers, isPollingInProgress, polls, lastPolledTimestamp, sockets>>

vars == <<pipelineVars, linkVars, paused, now, deviceLog, skippedPolls>>

---------------------------------------------------------------------------
(* Bounds of the model *)

\* records admitted to the pipeline in one behaviour of Spec
MaxItems == 2
\* processQueue invocations that may be suspended at the same time
MaxLoops == 2
\* records admitted in one behaviour of the enqueue-only specification
MaxBurst == 600
\* the last reading of the server clock
MaxTime == 2
\* records the terminal logs
MaxLog == 2
\* Zkteco objects created in one behaviour of the link specification
MaxHandles == 3
\* Zkteco objects created in one behaviour of the polling specification
PollHandles == 2
\* Zkteco objects created in one behaviour of the retry specification
RetryHandles == 5
\* pending initializeDevice timers beyond which no reinitialize is requested
MaxInitTimers == 2
\* polls counted as skipped
MaxSkips == 1
\* records a terminal holds beyond the limit of the history
MaxExcess == 1
\* punches reported in one behaviour of the normalisation specification
MaxRaw == 1
\* clients that connect
MaxSockets == 1
\* Zkteco objects created in one behaviour of the backoff specification of
\* the link
AttemptHandles == 6

---------------------------------------------------------------------------
(* Program constants *)

HistoryLimit == 1000

MAX_RETRIES == 5

\* RUSH_HANDLING_CONFIG as constructed
DefaultConfig ==
    [maxConcurrentPushes |-> 3, queueSize |-> 500, processingDelay |-> 50,
     batchSize |-> 5,
     retryStrategy |-> [maxRetries |-> 2, baseDelay |-> 1000,
                        maxDelay |-> 5000]]

\* partial configurations an operator sends with 'update-config'
ConfigUpdates ==
    [maxConcurrentPushes : {1, 3}] \cup [queueSize : {1, 500}]

\* partial configurations that name parameters of the retry strategy
RetryUpdates ==
    {[retryStrategy |-> r] :
        r \in [maxRetries : {0, 3}] \cup [baseDelay : {500}]
                \cup [maxDelay : {2000}]
                \cup [maxRetries : {1}, baseDelay : {500}, maxDelay : {2000}]}

\* partial configurations that name the batch size or the processing delay
PaceUpdates == [batchSize : {1}] \cup [processingDelay : {10}]

\* what the sink does with the payload shapes of one delivery, in the order
\* they are tried
SinkScripts ==
    {<<"2xx", "2xx", "2xx">>, <<"non2xx", "2xx", "non2xx">>,
     <<"timeout", "non2xx", "2xx">>, <<"non2xx", "timeout", "non2xx">>,
     <<"timeout", "timeout", "timeout">>}

---------------------------------------------------------------------------
(* Helpers *)

Min(a, b) == IF a <= b THEN a ELSE b

SeqToSet(s) == {s[i] : i \in 1..Len(s)}

\* the module-level state a handler reads and writes; initDelay is the delay
\* of the setTimeout(initializeDevice, ...) the handler run has made, if any,
\* and is not kept from one run to the next
Cur ==
    [config |-> config, queue |-> pushQueue, proc |-> isProcessingQueue,
     count |-> concurrentPushCount, stats |-> rushHandlingStats,
     history |-> attendanceHistory, procTimers |-> procTimers,
     loops |-> loops, inFlight |-> inFlight, retryTimers |-> retryTimers,
     published |-> published, attempts |-> attempts,
     delays |-> retryDelays,
     handles |-> handles, device |-> deviceInstance,
     connectionAttempts |-> connectionAttempts, initTimers |-> initTimers,
     initCalls |-> initCalls, realTime |-> realTimeListenersActive,
     interval |-> pollingInterval, status |-> device_connection,
     pollTimers |-> pollTimers,
     polling |-> isPollingInProgress, polls |-> polls,
     watermark |-> lastPolledTimestamp, sockets |-> sockets,
     initDelay |-> 0]

Apply(st) ==
    /\ config' = st.config
    /\ pushQueue' = st.queue
    /\ isProcessingQueue' = st.proc
    /\ concurrentPushCount' = st.count
    /\ rushHandlingStats' = st.stats
    /\ attendanceHistory' = st.history
    /\ procTimers' = st.procTimers
    /\ loops' = st.loops
    /\ inFlight' = st.inFlight
    /\ retryTimers' = st.retryTimers
    /\ published' = st.published
    /\ attempts' = st.attempts
    /\ retryDelays' = st.delays
    /\ handles' = st.handles
    /\ deviceInstance' = st.device
    /\ connectionAttempts' = st.connectionAttempts
    /\ initTimers' = st.initTimers
    /\ initCalls' = st.initCalls
    /\ realTimeListenersActive' = st.realTime
    /\ pollingInterval' = st.interval
    /\ device_connection' = st.status
    /\ pollTimers' = st.pollTimers
    /\ isPollingInProgress' = st.polling
    /\ polls' = st.polls
    /\ lastPolledTimestamp' = st.watermark
    /\ sockets' = st.sockets

---------------------------------------------------------------------------
(* Messages to the clients *)

\* io.emit: the message goes to every connected client. Of the messages of
\* the server the inboxes hold device_connection, attendance_record and
\* attendance_history and those of the connection handler; queue_status,
\* attendance_queued and external_api_push are left out
emit(st, message) ==
    [st EXCEPT !.sockets = [i \in DOMAIN @ |-> Append(@[i], message)]]

\* io.on('connection'): the new client is sent users_data, the history and
\* pushStatistics (and device_info when getInfo of a connected terminal
\* resolves, which is not recorded)
connection(st) ==
    [st EXCEPT !.sockets =
        Append(@, <<[event |-> "users_data"],
                    [event |-> "attendance_history", data |-> st.history],
                    [event |-> "push_statistics"]>>)]

---------------------------------------------------------------------------
(* Delivery queue and worker pool *)

\* addToProcessingQueue with the capacity test off by one (> for >=)
addToProcessingQueue_offByOne(st, rec) ==
    LET queueItem == [id |-> Len(st.attempts) + 1, record |-> rec,
                      attemptCount |-> 0]
        full == Len(st.queue) > st.config.queueSize
        kept == IF full THEN Tail(st.queue) ELSE st.queue
    IN  [st EXCEPT
            !.queue = Append(kept, queueItem),
            !.stats.totalDropped = IF full THEN @ + 1 ELSE @,
            !.stats.totalQueued = @ + 1,
            !.procTimers = IF st.proc THEN @ ELSE @ + 1,
            !.published = Append(@, <<>>),
            !.attempts = Append(@, 0),
            !.delays = Append(@, <<>>)]

\* addToProcessingQueue: drop the front item when full, push, count, and
\* schedule processQueue when no loop is marked running
addToProcessingQueue(st, rec) ==
    LET queueItem == [id |-> Len(st.attempts) + 1, record |-> rec,
                      attemptCount |-> 0]
        full == Len(st.queue) >= st.config.queueSize
        kept == IF full THEN Tail(st.queue) ELSE st.queue
    IN  [st EXCEPT
            !.queue = Append(kept, queueItem),
            !.stats.totalDropped = IF full THEN @ + 1 ELSE @,
            !.stats.totalQueued = @ + 1,
            !.procTimers = IF st.proc THEN @ ELSE @ + 1,
            !.published = Append(@, <<>>),
            !.attempts = Append(@, 0),
            !.delays = Append(@, <<>>)]

\* processAttendanceRecord: queue the record, then put it first in the
\* history and cut the history to its limit
processAttendanceRecord(st, rec) ==
    LET s1 == addToProcessingQueue(st, rec)
        h == <<rec>> \o s1.history
        s2 == [s1 EXCEPT
                !.history = IF Len(h) > HistoryLimit
                            THEN SubSeq(h, 1, HistoryLimit) ELSE h]
    IN  emit(emit(s2, [event |-> "attendance_record", data |-> rec]),
             [event |-> "attendance_history", data |-> s2.history])

\* a processQueue invocation suspended at an await: at a processingDelay
\* wait (pending empty), or at Promise.allSettled of the batch it dispatched
WaitingLoop == [pc |-> "wait", pending |-> {}]

BatchLoop(batch) ==
    [pc |-> "batch", pending |-> {batch[i].id : i \in 1..Len(batch)}]

\* the synchronous head of processQueueItem for every item of a batch:
\* concurrentPushCount++ and the call of pushToExternalAPI
dispatchBatch(st, batch) ==
    [st EXCEPT
        !.count = @ + Len(batch),
        !.inFlight = @ \cup SeqToSet(batch),
        !.attempts = [k \in DOMAIN @ |->
                        IF \E i \in 1..Len(batch) : batch[i].id = k
                        THEN @[k] + 1 ELSE @[k]],
        !.loops = @ (+) SetToBag({BatchLoop(batch)})]

\* the while loop taking its batch with slice, which leaves it in the queue
whileLoop_slice(st) ==
    IF Len(st.queue) = 0 \/ ~st.proc
    THEN [st EXCEPT !.proc = FALSE]
    ELSE LET availableSlots == st.config.maxConcurrentPushes - st.count IN
         IF availableSlots <= 0
         THEN [st EXCEPT !.loops = @ (+) SetToBag({WaitingLoop})]
         ELSE LET batchSize == Min(availableSlots,
                                   Min(st.config.batchSize, Len(st.queue)))
                  batch == SubSeq(st.queue, 1, batchSize)
              IN  dispatchBatch(st, batch)

\* the while loop of processQueue, from its condition to its next await (or
\* through the finally block when the condition fails); the invocation that
\* runs it is not in st.loops
whileLoop(st) ==
    IF Len(st.queue) = 0 \/ ~st.proc
    THEN [st EXCEPT !.proc = FALSE]
    ELSE LET availableSlots == st.config.maxConcurrentPushes - st.count IN
         IF availableSlots <= 0
         THEN [st EXCEPT !.loops = @ (+) SetToBag({WaitingLoop})]
         ELSE LET batchSize == Min(availableSlots,
                                   Min(st.config.batchSize, Len(st.queue)))
                  batch == SubSeq(st.queue, 1, batchSize)
                  rest == SubSeq(st.queue, batchSize + 1, Len(st.queue))
              IN  dispatchBatch([st EXCEPT !.queue = rest], batch)

\* processQueue, from its call to its first await
processQueue(st) ==
    IF st.proc THEN st ELSE whileLoop([st EXCEPT !.proc = TRUE])

\* the bound on suspended processQueue invocations
LoopsWithin(st) == BagCardinality(st.loops) <= MaxLoops

PayloadVariations == 3

\* pushToExternalAPI that tries the first payload shape only
tryPayloads_firstOnly(answers, i, lastError) ==
    [success |-> answers[1] = "2xx", payload |-> IF answers[1] = "2xx"
                                                 THEN 1 ELSE 0,
     error |-> IF answers[1] = "2xx" THEN "none" ELSE answers[1]]

\* the for loop of pushToExternalAPI over the payload shapes: answers[i] is
\* what the sink does with shape i; 2xx returns, anything else is kept as
\* lastError and the next shape is tried
RECURSIVE tryPayloads(_, _, _)
tryPayloads(answers, i, lastError) ==
    IF i > PayloadVariations
    THEN [success |-> FALSE, payload |-> 0, error |-> lastError]
    ELSE IF answers[i] = "2xx"
         THEN [success |-> TRUE, payload |-> i, error |-> "none"]
         ELSE tryPayloads(answers, i + 1, answers[i])

pushToExternalAPI(answers) == tryPayloads(answers, 1, "none")

\* Promise.allSettled of a batch: when the last processQueueItem of a batch
\* has settled the loop that dispatched it goes on, to the processingDelay
\* wait when items are queued
batchSettled(st, id) ==
    LET loop == CHOOSE l \in BagToSet(st.loops) : id \in l.pending
        left == loop.pending \ {id}
        others == st.loops (-) SetToBag({loop})
    IN  IF left # {}
        THEN [st EXCEPT !.loops = others (+)
                            SetToBag({[loop EXCEPT !.pending = left]})]
        ELSE IF Len(st.queue) > 0
             THEN [st EXCEPT !.loops = others (+) SetToBag({WaitingLoop})]
             ELSE whileLoop([st EXCEPT !.loops = others])

\* backoffDelay with the attempt count as it was before the increment
backoffDelay_beforeIncrement(retryStrategy, attemptCount) ==
    retryStrategy.baseDelay * 2^(attemptCount - 1)

\* backoffDelay of processQueueItem, attemptCount being the count after
\* queueItem.attemptCount++
backoffDelay(retryStrategy, attemptCount) ==
    retryStrategy.baseDelay * 2^attemptCount

\* deliveryFailed retrying once more than maxRetries (<= for <)
deliveryFailed_oneMoreRetry(st, queueItem) ==
    LET e == [st EXCEPT !.stats.totalErrors = @ + 1] IN
    IF queueItem.attemptCount <= st.config.retryStrategy.maxRetries
    THEN [e EXCEPT
            !.retryTimers = @ \cup {[queueItem EXCEPT !.attemptCount = @ + 1]},
            !.delays[queueItem.id] =
                Append(@, Min(backoffDelay(st.config.retryStrategy,
                                           queueItem.attemptCount + 1),
                              st.config.retryStrategy.maxDelay))]
    ELSE [e EXCEPT !.published[queueItem.id] = Append(@, FALSE)]

\* deliveryFailed without the final external_api_push message
deliveryFailed_silentDrop(st, queueItem) ==
    LET e == [st EXCEPT !.stats.totalErrors = @ + 1] IN
    IF queueItem.attemptCount < st.config.retryStrategy.maxRetries
    THEN [e EXCEPT
            !.retryTimers = @ \cup {[queueItem EXCEPT !.attemptCount = @ + 1]},
            !.delays[queueItem.id] =
                Append(@, Min(backoffDelay(st.config.retryStrategy,
                                           queueItem.attemptCount + 1),
                              st.config.retryStrategy.maxDelay))]
    ELSE e

\* the failure branch of processQueueItem
deliveryFailed(st, queueItem) ==
    LET e == [st EXCEPT !.stats.totalErrors = @ + 1] IN
    IF queueItem.attemptCount < st.config.retryStrategy.maxRetries
    THEN [e EXCEPT
            !.retryTimers = @ \cup {[queueItem EXCEPT !.attemptCount = @ + 1]},
            !.delays[queueItem.id] =
                Append(@, Min(backoffDelay(st.config.retryStrategy,
                                           queueItem.attemptCount + 1),
                              st.config.retryStrategy.maxDelay))]
    ELSE [e EXCEPT !.published[queueItem.id] = Append(@, FALSE)]

\* processQueueItem from the return of pushToExternalAPI to its end
processQueueItem(st, queueItem, result) ==
    LET s1 == IF result.success
              THEN [st EXCEPT !.stats.totalProcessed = @ + 1,
                              !.published[queueItem.id] = Append(@, TRUE)]
              ELSE deliveryFailed(st, queueItem)
        s2 == [s1 EXCEPT !.count = @ - 1, !.inFlight = @ \ {queueItem}]
    IN  batchSettled(s2, queueItem.id)

\* the retry timer putting the item at the front of the queue
retryTimeout_atFront(st, queueItem) ==
    LET s1 == [st EXCEPT !.queue = <<queueItem>> \o @,
                         !.retryTimers = @ \ {queueItem}]
    IN  IF ~s1.proc THEN processQueue(s1) ELSE s1

\* the retry timer putting the item back without starting processQueue
retryTimeout_noRestart(st, queueItem) ==
    [st EXCEPT !.queue = Append(@, queueItem),
               !.retryTimers = @ \ {queueItem}]

\* the retry timer of processQueueItem
retryTimeout(st, queueItem) ==
    LET s1 == [st EXCEPT !.queue = Append(@, queueItem),
                         !.retryTimers = @ \ {queueItem}]
    IN  IF ~s1.proc THEN processQueue(s1) ELSE s1

\* pushQueue.length = 0 of the action 'clear-queue'
clearQueue(st) == [st EXCEPT !.queue = <<>>]

\* Object.assign(RUSH_HANDLING_CONFIG, config)
objectAssign(target, source) ==
    [k \in DOMAIN target |->
        IF k \in DOMAIN source THEN source[k] ELSE target[k]]

\* the action 'update-config' of /api/rush-handling-control
updateConfig(st, c) == [st EXCEPT !.config = objectAssign(@, c)]

---------------------------------------------------------------------------
(* Normalisation of the record time *)

\* record_time values of a raw device record: a date text (with its " GMT..."
\* annotation), a text no date can be read from, or no value at all
RecordTimes ==
    [kind : {"text"}, t : 1..MaxTime]
        \cup {[kind |-> "garbage", t |-> 0], [kind |-> "missing", t |-> 0]}

\* parseZktecoTime that takes the current time for every record
parseZktecoTime_now(recordTime, clock) == [valid |-> TRUE, ms |-> clock]

\* parseZktecoTime: the current time when there is no value; else the Date
\* built from the text before " GMT", which is an Invalid Date (valid FALSE)
\* when the text is no date
parseZktecoTime(recordTime, clock) ==
    IF recordTime.kind = "missing" THEN [valid |-> TRUE, ms |-> clock]
    ELSE IF recordTime.kind = "text" THEN [valid |-> TRUE, ms |-> recordTime.t]
    ELSE [valid |-> FALSE, ms |-> 0]

\* a raw record is a record of the fields the terminal sent; a field it did
\* not send reads as undefined

\* determineVerificationMethod with Face left out of the switch
determineVerificationMethod_noFace(logData) ==
    IF "type" \notin DOMAIN logData THEN "Unknown"
    ELSE CASE logData.type = 0 -> "Password"
           [] logData.type = 1 -> "Fingerprint"
           [] logData.type = 2 -> "Card"
           [] logData.type = 4 -> "Fingerprint or Password"
           [] logData.type = 15 -> "Fingerprint or Password"
           [] OTHER -> "Unknown"

\* determineVerificationMethod: the switch on logData.type
determineVerificationMethod(logData) ==
    IF "type" \notin DOMAIN logData THEN "Unknown"
    ELSE CASE logData.type = 0 -> "Password"
           [] logData.type = 1 -> "Fingerprint"
           [] logData.type = 2 -> "Card"
           [] logData.type = 3 -> "Face"
           [] logData.type = 4 -> "Fingerprint or Password"
           [] logData.type = 15 -> "Fingerprint or Password"
           [] OTHER -> "Unknown"

\* determinePunchType: the switch on logData.state
determinePunchType(logData) ==
    IF "state" \notin DOMAIN logData THEN "Unknown"
    ELSE CASE logData.state = 0 -> "Check-in"
           [] logData.state = 1 -> "Check-out"
           [] logData.state = 2 -> "Break-out"
           [] logData.state = 3 -> "Break-in"
           [] logData.state = 4 -> "Overtime-in"
           [] logData.state = 5 -> "Overtime-out"
           [] OTHER -> "Unknown"

\* logData.user_id || logData.userId || 'Unknown'
userId(logData) ==
    IF "user_id" \in DOMAIN logData /\ logData.user_id # ""
    THEN logData.user_id
    ELSE IF "userId" \in DOMAIN logData /\ logData.userId # ""
         THEN logData.userId
         ELSE "Unknown"

\* the record built from a raw record and its parsed time (a valid Date,
\* in ms): src and raw stand for its id, 'realtime-<ms>-<random>',
\* 'poll-<ms>-<index>' or 'att-<ms>-<index>'
attendanceRecord(source, ms, index, logData) ==
    [src |-> source, t |-> ms, raw |-> index,
     userId |-> userId(logData),
     verificationMethod |-> determineVerificationMethod(logData),
     punchType |-> determinePunchType(logData),
     rawData |-> logData]

---------------------------------------------------------------------------
(* Device link *)

\* reinitializeDeviceConnection: disconnect and forget the current handle,
\* reset the attempt counter, call initializeDevice in 5 s
reinitializeDeviceConnection(st) ==
    LET s1 == IF st.device # 0
              THEN [st EXCEPT !.handles[st.device] = "closed", !.device = 0]
              ELSE st
    IN  [s1 EXCEPT !.connectionAttempts = 0, !.initTimers = @ + 1,
                   !.initDelay = 5000]

\* initializeDevice that sets no timer when it starts the cooldown
initializeDevice_noCooldownTimer(st) ==
    IF st.connectionAttempts >= MAX_RETRIES
    THEN [st EXCEPT !.connectionAttempts = 0]
    ELSE LET h == Len(st.handles) + 1 IN
         [st EXCEPT !.handles = Append(@, "connecting"),
                    !.device = h,
                    !.initCalls = @ (+) SetToBag({[pc |-> "socket", h |-> h]})]

\* initializeDevice from its call to the await of createSocket
initializeDevice(st) ==
    IF st.connectionAttempts >= MAX_RETRIES
    THEN [st EXCEPT !.connectionAttempts = 0, !.initTimers = @ + 1,
                    !.initDelay = 60000]
    ELSE LET h == Len(st.handles) + 1 IN
         [st EXCEPT !.handles = Append(@, "connecting"),
                    !.device = h,
                    !.initCalls = @ (+) SetToBag({[pc |-> "socket", h |-> h]})]

\* createSocket resolved: initializeDevice goes on to getInfo, getUsers and
\* getRealTimeLogs on deviceInstance
socketConnected(st, call) ==
    [st EXCEPT
        !.handles[call.h] = IF @ = "connecting" THEN "open" ELSE @,
        !.initCalls = (@ (-) SetToBag({call}))
                        (+) SetToBag({[pc |-> "setup", h |-> call.h]})]

\* the rest of the try block of initializeDevice: registered says whether
\* getRealTimeLogs succeeded; either way the polling interval and the initial
\* poll are set and 'connected' is emitted
deviceReady(st, call, registered) ==
    emit([st EXCEPT
            !.initCalls = @ (-) SetToBag({call}),
            !.realTime = registered,
            !.interval = TRUE,
            !.pollTimers = @ + 1,
            !.connectionAttempts = 0,
            !.status = "connected"],
         [event |-> "device_connection", status |-> "connected"])

\* retryDelay of the catch block of initializeDevice, count
\* being connectionAttempts after connectionAttempts++
retryDelay(count) == Min(5000 * count, 30000)

\* the catch block of initializeDevice reporting 'connected'
connectFailed_reportsConnected(st, call) ==
    LET s1 == IF st.device # 0
              THEN [st EXCEPT !.handles[st.device] = "closed", !.device = 0]
              ELSE st
    IN  emit([s1 EXCEPT !.initCalls = @ (-) SetToBag({call}),
                        !.connectionAttempts = @ + 1,
                        !.status = "connected",
                        !.initTimers = @ + 1,
                        !.initDelay = retryDelay(st.connectionAttempts + 1)],
             [event |-> "device_connection", status |-> "connected"])

\* the catch block of initializeDevice
connectFailed(st, call) ==
    LET s1 == IF st.device # 0
              THEN [st EXCEPT !.handles[st.device] = "closed", !.device = 0]
              ELSE st
    IN  emit([s1 EXCEPT !.initCalls = @ (-) SetToBag({call}),
                        !.connectionAttempts = @ + 1,
                        !.status = "disconnected",
                        !.initTimers = @ + 1,
                        !.initDelay = retryDelay(st.connectionAttempts + 1)],
             [event |-> "device_connection", status |-> "disconnected"])

---------------------------------------------------------------------------
(* Polling *)

\* error messages of a failed getAttendances, and the words the handlers of
\* pollForNewAttendances look for in them
PollErrors ==
    {"ERROR_IN_UNHANDLE_CMD", "Polling timeout", "socket closed",
     "device busy"}

InvalidTimeValue == "Invalid time value"

Includes(message, word) ==
    \/ message = "ERROR_IN_UNHANDLE_CMD" /\ word = "ERROR_IN_UNHANDLE_CMD"
    \/ message = "Polling timeout" /\ word = "timeout"
    \/ message = "socket closed" /\ word = "socket"

\* pollForNewAttendances without the in-progress test
pollForNewAttendances_noGuard(st) ==
    IF st.device = 0 THEN st
    ELSE [st EXCEPT
            !.polling = TRUE,
            !.polls = @ (+) SetToBag({[h |-> st.device,
                                       open |-> st.handles[st.device] = "open",
                                       before |-> st.watermark]})]

\* pollForNewAttendances from its call to the await of the fetch
pollForNewAttendances(st) ==
    IF st.device = 0 \/ st.polling THEN st
    ELSE [st EXCEPT
            !.polling = TRUE,
            !.polls = @ (+) SetToBag({[h |-> st.device,
                                       open |-> st.handles[st.device] = "open",
                                       before |-> st.watermark]})]

\* pollFailed that reconnects on protocol errors only
pollFailed_protocolOnly(st, message) ==
    LET s1 == IF \/ Includes(message, "ERROR_IN_UNHANDLE_CMD")
                 \/ Includes(message, "UNKNOWN ERROR")
              THEN reinitializeDeviceConnection(st)
              ELSE st
    IN  [s1 EXCEPT !.polling = FALSE]

\* pollFailed leaving the flag set when it returns from the inner catch
pollFailed_flagKept(st, message) ==
    IF \/ Includes(message, "ERROR_IN_UNHANDLE_CMD")
       \/ Includes(message, "UNKNOWN ERROR")
    THEN reinitializeDeviceConnection(st)
    ELSE LET s1 == IF \/ Includes(message, "timeout")
                      \/ Includes(message, "socket")
                      \/ Includes(message, "connection")
                   THEN reinitializeDeviceConnection(st)
                   ELSE st
         IN  [s1 EXCEPT !.polling = FALSE]

\* the catch blocks and the finally block of pollForNewAttendances
pollFailed(st, message) ==
    LET s1 == IF \/ Includes(message, "ERROR_IN_UNHANDLE_CMD")
                 \/ Includes(message, "UNKNOWN ERROR")
              THEN reinitializeDeviceConnection(st)
              ELSE IF \/ Includes(message, "timeout")
                      \/ Includes(message, "socket")
                      \/ Includes(message, "connection")
                   THEN reinitializeDeviceConnection(st)
                   ELSE st
    IN  [s1 EXCEPT !.polling = FALSE]

\* deviceLogs.map: one record per raw record, in the order of the log
pollRecords(logs, clock) ==
    [i \in 1..Len(logs) |->
        attendanceRecord("poll",
                         parseZktecoTime(logs[i].record_time, clock).ms,
                         i, logs[i])]

\* the filter admitting records at the watermark (>= for >)
RECURSIVE filterNew_inclusive(_, _)
filterNew_inclusive(recs, watermark) ==
    IF recs = <<>> THEN <<>>
    ELSE IF Head(recs).t >= watermark
         THEN <<Head(recs)>> \o filterNew_inclusive(Tail(recs), watermark)
         ELSE filterNew_inclusive(Tail(recs), watermark)

\* newLogs.filter(log => log.pollTime > lastPolledTimestamp)
RECURSIVE filterNew(_, _)
filterNew(recs, watermark) ==
    IF recs = <<>> THEN <<>>
    ELSE IF Head(recs).t > watermark
         THEN <<Head(recs)>> \o filterNew(Tail(recs), watermark)
         ELSE filterNew(Tail(recs), watermark)

\* newLogs.sort leaving the records in the order of the log
sortByTime_logOrder(recs) == recs

\* newLogs.sort by timestamp, ascending; records of equal time keep their order
RECURSIVE insertByTime(_, _)
insertByTime(sorted, r) ==
    IF sorted = <<>> THEN <<r>>
    ELSE IF Head(sorted).t <= r.t
         THEN <<Head(sorted)>> \o insertByTime(Tail(sorted), r)
         ELSE <<r>> \o sorted

RECURSIVE sortByTime(_)
sortByTime(recs) ==
    IF recs = <<>> THEN <<>>
    ELSE insertByTime(sortByTime(SubSeq(recs, 1, Len(recs) - 1)),
                      recs[Len(recs)])

\* newLogs.forEach(log => processAttendanceRecord(log))
RECURSIVE processAll(_, _)
processAll(st, recs) ==
    IF recs = <<>> THEN st
    ELSE processAll(processAttendanceRecord(st, Head(recs)), Tail(recs))

RECURSIVE maxTime(_)
maxTime(recs) ==
    IF Len(recs) = 1 THEN recs[1].t
    ELSE LET m == maxTime(Tail(recs)) IN
         IF recs[1].t >= m THEN recs[1].t ELSE m

\* pollForNewAttendances from the resolved fetch to its end
pollFetched(st, logs, clock) ==
    IF \E i \in 1..Len(logs) :
            ~parseZktecoTime(logs[i].record_time, clock).valid
    THEN pollFailed(st, InvalidTimeValue)
    ELSE LET newLogs == sortByTime(filterNew(pollRecords(logs, clock),
                                             st.watermark))
         IN  IF Len(newLogs) > 0
             THEN [processAll(st, newLogs) EXCEPT
                        !.watermark = maxTime(newLogs),
                        !.polling = FALSE]
             ELSE [st EXCEPT !.polling = FALSE]

---------------------------------------------------------------------------
(* Real-time callback *)

\* processAndBroadcastAttendance that moves the watermark to the record
processAndBroadcastAttendance_advancing(st, logData, clock) ==
    LET timestamp == parseZktecoTime(logData.record_time, clock) IN
    IF ~timestamp.valid THEN st
    ELSE [processAttendanceRecord(
                st, attendanceRecord("realtime", timestamp.ms, 0, logData))
            EXCEPT !.watermark = timestamp.ms]

\* processAndBroadcastAttendance: the record is built from the parsed time
\* and handed to processAttendanceRecord; toISOString throws on an Invalid
\* Date, the promise of the async function rejects and nothing is recorded
processAndBroadcastAttendance(st, logData, clock) ==
    LET timestamp == parseZktecoTime(logData.record_time, clock) IN
    IF ~timestamp.valid THEN st
    ELSE processAttendanceRecord(
            st, attendanceRecord("realtime", timestamp.ms, 0, logData))

---------------------------------------------------------------------------
(* GET /api/attendance *)

\* processedLogs.sort((a, b) => new Date(b.timestamp) - new Date(a.timestamp)):
\* the records of time k and of the times before it, those of time k first
\* and in the order they had
RECURSIVE sortNewestFirst(_, _)
sortNewestFirst(recs, k) ==
    IF k < 0 THEN <<>>
    ELSE SelectSeq(recs, LAMBDA r : r.t = k) \o sortNewestFirst(recs, k - 1)

\* GET /api/attendance from the resolved getAttendances to its response: one
\* record per raw record of the log, those of the date asked for when a date
\* is given (0 for none; the clock readings of the model fall on different
\* dates), newest first, become the history; toISOString throwing on an
\* Invalid Date is caught and answered with status 500
getAttendance(st, logs, filterDate, clock) ==
    IF \E i \in 1..Len(logs) :
            ~parseZktecoTime(logs[i].record_time, clock).valid
    THEN st
    ELSE LET processedLogs ==
                [i \in 1..Len(logs) |->
                    attendanceRecord(
                        "att", parseZktecoTime(logs[i].record_time, clock).ms,
                        i, logs[i])]
             ofDate == IF filterDate = 0 THEN processedLogs
                       ELSE SelectSeq(processedLogs,
                                      LAMBDA r : r.t = filterDate)
         IN  [st EXCEPT !.history = sortNewestFirst(ofDate, MaxTime)]

---------------------------------------------------------------------------
(* Actions of the delivery pipeline *)

\* POST /api/test-auto-push
TestRecord == [src |-> "test", t |-> now, raw |-> 0]

TestAutoPush(limit) ==
    /\ Len(attempts) < limit
    /\ Apply(processAttendanceRecord(Cur, TestRecord))
    /\ UNCHANGED <<paused, now, deviceLog, skippedPolls>>

\* the timer set by addToProcessingQueue fires
ProcessQueueTimer ==
    /\ procTimers > 0
    /\ LET s1 == processQueue([Cur EXCEPT !.procTimers = @ - 1]) IN
        LoopsWithin(s1) /\ Apply(s1)
    /\ UNCHANGED <<paused, now, deviceLog, skippedPolls>>

\* a processingDelay wait of processQueue ends
LoopWake ==
    /\ BagIn(WaitingLoop, loops)
    /\ Apply(whileLoop([Cur EXCEPT !.loops = @ (-) SetToBag({WaitingLoop})]))
    /\ UNCHANGED <<paused, now, deviceLog, skippedPolls>>

\* pushToExternalAPI returns to processQueueItem
DeliveryDone(queueItem, answers) ==
    /\ queueItem \in inFlight
    /\ Apply(processQueueItem(Cur, queueItem, pushToExternalAPI(answers)))
    /\ UNCHANGED <<paused, now, deviceLog, skippedPolls>>

\* a retry timer fires
RetryTimer(queueItem) ==
    /\ queueItem \in retryTimers
    /\ LET s1 == retryTimeout(Cur, queueItem) IN
        LoopsWithin(s1) /\ Apply(s1)
    /\ UNCHANGED <<paused, now, deviceLog, skippedPolls>>

\* 'pause' that also abandons the deliveries in flight
Pause_abandoning ==
    /\ Apply([Cur EXCEPT !.proc = FALSE, !.inFlight = {}, !.count = 0])
    /\ paused' = TRUE
    /\ UNCHANGED <<now, deviceLog, skippedPolls>>

\* POST /api/rush-handling-control, action 'pause'
Pause ==
    /\ Apply([Cur EXCEPT !.proc = FALSE])
    /\ paused' = TRUE
    /\ UNCHANGED <<now, deviceLog, skippedPolls>>

\* 'resume' that does not start processQueue
Resume_flagOnly ==
    /\ Apply(Cur)
    /\ paused' = FALSE
    /\ UNCHANGED <<now, deviceLog, skippedPolls>>

\* action 'resume'
Resume ==
    /\ LET s1 == IF ~isProcessingQueue /\ Len(pushQueue) > 0
                 THEN processQueue(Cur) ELSE Cur
       IN  LoopsWithin(s1) /\ Apply(s1)
    /\ paused' = FALSE
    /\ UNCHANGED <<now, deviceLog, skippedPolls>>

\* action 'clear-queue'
ClearQueue ==
    /\ Apply(clearQueue(Cur))
    /\ UNCHANGED <<paused, now, deviceLog, skippedPolls>>

\* action 'update-config'
UpdateConfig(c) ==
    /\ Apply(updateConfig(Cur, c))
    /\ UNCHANGED <<paused, now, deviceLog, skippedPolls>>

---------------------------------------------------------------------------
(* Actions of the device link and of polling *)

\* the server clock advances
Tick ==
    /\ now < MaxTime
    /\ now' = now + 1
    /\ UNCHANGED <<pipelineVars, linkVars, paused, deviceLog, skippedPolls>>

\* the terminal records a punch
DevicePunch(recordTime) ==
    /\ Len(deviceLog) < MaxLog
    /\ deviceLog' = Append(deviceLog, [record_time |-> recordTime])
    /\ UNCHANGED <<pipelineVars, linkVars, paused, now, skippedPolls>>

\* the terminal records a punch and reports it to the real-time callback
RealTimeLog(logData, limit) ==
    /\ Len(deviceLog) < limit
    /\ realTimeListenersActive
    /\ deviceInstance # 0 /\ handles[deviceInstance] = "open"
    /\ deviceLog' = Append(deviceLog, logData)
    /\ Apply(processAndBroadcastAttendance(Cur, logData, now))
    /\ UNCHANGED <<paused, now, skippedPolls>>

\* a punch of which the terminal reports the time only
RealTimePunch(recordTime) ==
    RealTimeLog([record_time |-> recordTime], MaxLog)

\* a pending call of initializeDevice runs
InitializeDevice(limit) ==
    /\ initTimers > 0
    /\ connectionAttempts < MAX_RETRIES => Len(handles) < limit
    /\ Apply(initializeDevice([Cur EXCEPT !.initTimers = @ - 1]))
    /\ UNCHANGED <<paused, now, deviceLog, skippedPolls>>

\* createSocket resolves
SocketConnected(call) ==
    /\ BagIn(call, initCalls) /\ call.pc = "socket"
    /\ Apply(socketConnected(Cur, call))
    /\ UNCHANGED <<paused, now, deviceLog, skippedPolls>>

\* createSocket rejects or the connection timeout wins the race
SocketFailed(call) ==
    /\ BagIn(call, initCalls) /\ call.pc = "socket"
    /\ Apply(connectFailed(Cur, call))
    /\ UNCHANGED <<paused, now, deviceLog, skippedPolls>>

\* getInfo, getUsers and getRealTimeLogs have settled
DeviceReady(call, registered) ==
    /\ BagIn(call, initCalls) /\ call.pc = "setup"
    /\ registered => (deviceInstance # 0 /\ handles[deviceInstance] = "open")
    /\ Apply(deviceReady(Cur, call, registered))
    /\ UNCHANGED <<paused, now, deviceLog, skippedPolls>>

\* POST /api/reinitialize-device
ReinitializeDevice ==
    /\ initTimers < MaxInitTimers
    /\ Apply(reinitializeDeviceConnection(Cur))
    /\ UNCHANGED <<paused, now, deviceLog, skippedPolls>>

\* a call of pollForNewAttendances: it counts as skipped when it returns at
\* the in-progress test
PollCall(st) ==
    /\ (st.device # 0 /\ st.polling) => skippedPolls < MaxSkips
    /\ Apply(pollForNewAttendances(st))
    /\ skippedPolls' = IF st.device # 0 /\ st.polling
                       THEN skippedPolls + 1 ELSE skippedPolls
    /\ UNCHANGED <<paused, now, deviceLog>>

\* the polling interval ticks
PollInterval == pollingInterval /\ PollCall(Cur)

\* the initial-poll timer fires
InitialPoll == pollTimers > 0 /\ PollCall([Cur EXCEPT !.pollTimers = @ - 1])

\* POST /api/poll-now
PollNow == PollCall(Cur)

\* getAttendances resolves with the log of the terminal
PollFetched(poll) ==
    /\ BagIn(poll, polls) /\ poll.open
    /\ Apply(pollFetched([Cur EXCEPT !.polls = @ (-) SetToBag({poll})],
                         deviceLog, now))
    /\ UNCHANGED <<paused, now, deviceLog, skippedPolls>>

\* getAttendances rejects or the polling timeout wins the race
PollFailed(poll, message) ==
    /\ BagIn(poll, polls)
    /\ Apply(pollFailed([Cur EXCEPT !.polls = @ (-) SetToBag({poll})],
                        message))
    /\ UNCHANGED <<paused, now, deviceLog, skippedPolls>>

\* a client connects
Connection(limit) ==
    /\ Len(sockets) < limit
    /\ Apply(connection(Cur))
    /\ UNCHANGED <<paused, now, deviceLog, skippedPolls>>

\* GET /api/attendance: getAttendances of the connected terminal resolves
GetAttendance(filterDate) ==
    /\ deviceInstance # 0 /\ handles[deviceInstance] = "open"
    /\ Apply(getAttendance(Cur, deviceLog, filterDate, now))
    /\ UNCHANGED <<paused, now, deviceLog, skippedPolls>>

---------------------------------------------------------------------------
(* Specifications *)

Init ==
    /\ config = DefaultConfig
    /\ pushQueue = <<>>
    /\ isProcessingQueue = FALSE
    /\ concurrentPushCount = 0
    /\ rushHandlingStats = [totalProcessed |-> 0, totalQueued |-> 0,
                            totalDropped |-> 0, totalErrors |-> 0]
    /\ attendanceHistory = <<>>
    /\ procTimers = 0
    /\ loops = EmptyBag
    /\ inFlight = {}
    /\ retryTimers = {}
    /\ published = <<>>
    /\ attempts = <<>>
    /\ retryDelays = <<>>
    /\ paused = FALSE
    /\ now = 1
    /\ deviceLog = <<>>
    /\ handles = <<"connecting">>
    /\ deviceInstance = 1
    /\ connectionAttempts = 0
    /\ initTimers = 0
    /\ initCalls = SetToBag({[pc |-> "socket", h |-> 1]})
    /\ realTimeListenersActive = FALSE
    /\ pollingInterval = FALSE
    /\ device_connection = "none"
    /\ pollTimers = 0
    /\ isPollingInProgress = FALSE
    /\ polls = EmptyBag
    /\ lastPolledTimestamp = 1
    /\ sockets = <<>>
    /\ skippedPolls = 0

Next ==
    \/ TestAutoPush(MaxItems)
    \/ ProcessQueueTimer
    \/ LoopWake
    \/ \E q \in inFlight : \E a \in SinkScripts : DeliveryDone(q, a)
    \/ \E q \in retryTimers : RetryTimer(q)
    \/ Pause
    \/ Resume
    \/ ClearQueue
    \/ \E c \in ConfigUpdates : UpdateConfig(c)

Spec == Init /\ [][Next]_vars

\* configurations reachable by 'update-config' before any record arrives
StartConfigs ==
    {[DefaultConfig EXCEPT !.queueSize = c, !.maxConcurrentPushes = m] :
        c \in {1, 2, 3, 500}, m \in {1, 3}}

InitConfigured ==
    /\ config \in StartConfigs
    /\ pushQueue = <<>>
    /\ isProcessingQueue = FALSE
    /\ concurrentPushCount = 0
    /\ rushHandlingStats = [totalProcessed |-> 0, totalQueued |-> 0,
                            totalDropped |-> 0, totalErrors |-> 0]
    /\ attendanceHistory = <<>>
    /\ procTimers = 0
    /\ loops = EmptyBag
    /\ inFlight = {}
    /\ retryTimers = {}
    /\ published = <<>>
    /\ attempts = <<>>
    /\ retryDelays = <<>>
    /\ paused = FALSE
    /\ now = 1
    /\ deviceLog = <<>>
    /\ handles = <<"connecting">>
    /\ deviceInstance = 1
    /\ connectionAttempts = 0
    /\ initTimers = 0
    /\ initCalls = SetToBag({[pc |-> "socket", h |-> 1]})
    /\ realTimeListenersActive = FALSE
    /\ pollingInterval = FALSE
    /\ device_connection = "none"
    /\ pollTimers = 0
    /\ isPollingInProgress = FALSE
    /\ polls = EmptyBag
    /\ lastPolledTimestamp = 1
    /\ sockets = <<>>
    /\ skippedPolls = 0

\* records arrive and nothing drains the queue
NextEnqueue == TestAutoPush(MaxBurst)

SpecEnqueue == InitConfigured /\ [][NextEnqueue]_vars

\* the pipeline with its configuration left alone
NextFixedConfig ==
    \/ TestAutoPush(MaxItems)
    \/ ProcessQueueTimer
    \/ LoopWake
    \/ \E q \in inFlight : \E a \in SinkScripts : DeliveryDone(q, a)
    \/ \E q \in retryTimers : RetryTimer(q)
    \/ Pause
    \/ Resume
    \/ ClearQueue

SpecFixedConfig == InitConfigured /\ [][NextFixedConfig]_vars

\* the device link: connection attempts, their retries, reconnection
\* requests, and polls of a terminal whose log is empty
NextLink ==
    \/ InitializeDevice(MaxHandles)
    \/ \E c \in BagToSet(initCalls) : SocketConnected(c)
    \/ \E c \in BagToSet(initCalls) : SocketFailed(c)
    \/ \E c \in BagToSet(initCalls) : \E r \in BOOLEAN : DeviceReady(c, r)
    \/ ReinitializeDevice
    \/ PollInterval
    \/ InitialPoll
    \/ PollNow
    \/ \E p \in BagToSet(polls) : PollFetched(p)
    \/ \E p \in BagToSet(polls) : \E m \in PollErrors : PollFailed(p, m)

SpecLink == Init /\ [][NextLink]_vars

\* polling of a terminal that records punches while the server clock runs
NextPoll ==
    \/ Tick
    \/ \E r \in RecordTimes : DevicePunch(r)
    \/ InitializeDevice(PollHandles)
    \/ \E c \in BagToSet(initCalls) : SocketConnected(c)
    \/ \E c \in BagToSet(initCalls) : \E r \in BOOLEAN : DeviceReady(c, r)
    \/ PollInterval
    \/ InitialPoll
    \/ PollNow
    \/ \E p \in BagToSet(polls) : PollFetched(p)
    \/ \E p \in BagToSet(polls) : \E m \in PollErrors : PollFailed(p, m)

SpecPoll == Init /\ [][NextPoll]_vars

\* a sink that accepts the first payload shape, or answers none in time
DrainScripts ==
    {<<"2xx", "2xx", "2xx">>, <<"timeout", "timeout", "timeout">>}

\* the pipeline after 'update-config' has set one retry, before any record
InitDrain ==
    /\ config = [DefaultConfig EXCEPT !.retryStrategy.maxRetries = 1]
    /\ pushQueue = <<>>
    /\ isProcessingQueue = FALSE
    /\ concurrentPushCount = 0
    /\ rushHandlingStats = [totalProcessed |-> 0, totalQueued |-> 0,
                            totalDropped |-> 0, totalErrors |-> 0]
    /\ attendanceHistory = <<>>
    /\ procTimers = 0
    /\ loops = EmptyBag
    /\ inFlight = {}
    /\ retryTimers = {}
    /\ published = <<>>
    /\ attempts = <<>>
    /\ retryDelays = <<>>
    /\ paused = FALSE
    /\ now = 1
    /\ deviceLog = <<>>
    /\ handles = <<"connecting">>
    /\ deviceInstance = 1
    /\ connectionAttempts = 0
    /\ initTimers = 0
    /\ initCalls = SetToBag({[pc |-> "socket", h |-> 1]})
    /\ realTimeListenersActive = FALSE
    /\ pollingInterval = FALSE
    /\ device_connection = "none"
    /\ pollTimers = 0
    /\ isPollingInProgress = FALSE
    /\ polls = EmptyBag
    /\ lastPolledTimestamp = 1
    /\ sockets = <<>>
    /\ skippedPolls = 0

\* what the event loop does by itself: timers fire, waits end, deliveries
\* return
Progress ==
    \/ ProcessQueueTimer
    \/ LoopWake
    \/ \E q \in inFlight : \E a \in DrainScripts : DeliveryDone(q, a)
    \/ \E q \in retryTimers : RetryTimer(q)

\* records arrive and the operator pauses and resumes the pool
NextDrain ==
    \/ TestAutoPush(MaxItems)
    \/ ProcessQueueTimer
    \/ LoopWake
    \/ \E q \in inFlight : \E a \in DrainScripts : DeliveryDone(q, a)
    \/ \E q \in retryTimers : RetryTimer(q)
    \/ Pause
    \/ Resume

\* the event loop goes on as long as it has something to run; arrivals and
\* the operator's requests are under no obligation
SpecDrain == InitDrain /\ [][NextDrain]_vars /\ WF_vars(Progress)

\* the pipeline after 'update-config' has set a queue of one item and one
\* retry, before any record
InitLeave ==
    /\ config = [DefaultConfig EXCEPT !.retryStrategy.maxRetries = 1,
                                      !.queueSize = 1]
    /\ pushQueue = <<>>
    /\ isProcessingQueue = FALSE
    /\ concurrentPushCount = 0
    /\ rushHandlingStats = [totalProcessed |-> 0, totalQueued |-> 0,
                            totalDropped |-> 0, totalErrors |-> 0]
    /\ attendanceHistory = <<>>
    /\ procTimers = 0
    /\ loops = EmptyBag
    /\ inFlight = {}
    /\ retryTimers = {}
    /\ published = <<>>
    /\ attempts = <<>>
    /\ retryDelays = <<>>
    /\ paused = FALSE
    /\ now = 1
    /\ deviceLog = <<>>
    /\ handles = <<"connecting">>
    /\ deviceInstance = 1
    /\ connectionAttempts = 0
    /\ initTimers = 0
    /\ initCalls = SetToBag({[pc |-> "socket", h |-> 1]})
    /\ realTimeListenersActive = FALSE
    /\ pollingInterval = FALSE
    /\ device_connection = "none"
    /\ pollTimers = 0
    /\ isPollingInProgress = FALSE
    /\ polls = EmptyBag
    /\ lastPolledTimestamp = 1
    /\ sockets = <<>>
    /\ skippedPolls = 0

\* records arrive, overflow the queue, and the operator pauses, resumes and
\* clears
NextLeave ==
    \/ TestAutoPush(MaxItems)
    \/ ProcessQueueTimer
    \/ LoopWake
    \/ \E q \in inFlight : \E a \in DrainScripts : DeliveryDone(q, a)
    \/ \E q \in retryTimers : RetryTimer(q)
    \/ Pause
    \/ Resume
    \/ ClearQueue

SpecLeave == InitLeave /\ [][NextLeave]_vars /\ WF_vars(Progress)

\* connection attempts, their failures and retries up to the cooldown, and
\* reconnection requests
NextRetry ==
    \/ InitializeDevice(RetryHandles)
    \/ \E c \in BagToSet(initCalls) : SocketConnected(c)
    \/ \E c \in BagToSet(initCalls) : SocketFailed(c)
    \/ \E c \in BagToSet(initCalls) : \E r \in BOOLEAN : DeviceReady(c, r)
    \/ ReinitializeDevice

SpecRetry == Init /\ [][NextRetry]_vars

\* connection attempts, their failures and retries, and reconnection
\* requests, with one attempt more than MAX_RETRIES
NextAttempts ==
    \/ InitializeDevice(AttemptHandles)
    \/ \E c \in BagToSet(initCalls) : SocketConnected(c)
    \/ \E c \in BagToSet(initCalls) : SocketFailed(c)
    \/ \E c \in BagToSet(initCalls) : \E r \in BOOLEAN : DeviceReady(c, r)
    \/ ReinitializeDevice

SpecAttempts == Init /\ [][NextAttempts]_vars

\* both producers of a terminal that reports its punches to the real-time
\* callback: the callback, polls on request, the reconnections that failed
\* polls start, and the operator clearing the queue
NextIngest ==
    \/ \E r \in RecordTimes : RealTimePunch(r)
    \/ InitializeDevice(PollHandles)
    \/ \E c \in BagToSet(initCalls) : SocketConnected(c)
    \/ \E c \in BagToSet(initCalls) : \E r \in BOOLEAN : DeviceReady(c, r)
    \/ PollNow
    \/ \E p \in BagToSet(polls) : PollFetched(p)
    \/ \E p \in BagToSet(polls) : \E m \in PollErrors : PollFailed(p, m)
    \/ ClearQueue

SpecIngest == Init /\ [][NextIngest]_vars

\* logs a terminal holds when the server starts: around the limit of the
\* history, every record with a time the server can read
StoredLogs ==
    {[i \in 1..n |->
        [record_time |-> [kind |-> "text", t |-> 1 + (i % MaxTime)]]] :
     n \in (HistoryLimit - 1)..(HistoryLimit + MaxExcess)}

InitStored ==
    /\ config = DefaultConfig
    /\ pushQueue = <<>>
    /\ isProcessingQueue = FALSE
    /\ concurrentPushCount = 0
    /\ rushHandlingStats = [totalProcessed |-> 0, totalQueued |-> 0,
                            totalDropped |-> 0, totalErrors |-> 0]
    /\ attendanceHistory = <<>>
    /\ procTimers = 0
    /\ loops = EmptyBag
    /\ inFlight = {}
    /\ retryTimers = {}
    /\ published = <<>>
    /\ attempts = <<>>
    /\ retryDelays = <<>>
    /\ paused = FALSE
    /\ now = 1
    /\ deviceLog \in StoredLogs
    /\ handles = <<"connecting">>
    /\ deviceInstance = 1
    /\ connectionAttempts = 0
    /\ initTimers = 0
    /\ initCalls = SetToBag({[pc |-> "socket", h |-> 1]})
    /\ realTimeListenersActive = FALSE
    /\ pollingInterval = FALSE
    /\ device_connection = "none"
    /\ pollTimers = 0
    /\ isPollingInProgress = FALSE
    /\ polls = EmptyBag
    /\ lastPolledTimestamp = 1
    /\ sockets = <<>>
    /\ skippedPolls = 0

\* the writers of the history: requests for the log of a terminal that
\* holds about as many records as the history may, and ingestion
NextHistory ==
    \/ \E c \in BagToSet(initCalls) : SocketConnected(c)
    \/ \E c \in BagToSet(initCalls) : \E r \in BOOLEAN : DeviceReady(c, r)
    \/ \E d \in 0..MaxTime : GetAttendance(d)
    \/ TestAutoPush(MaxItems)
    \/ Tick

SpecHistory == InitStored /\ [][NextHistory]_vars

\* queue capacities an operator has set before any record arrives
OrderConfigs == {[DefaultConfig EXCEPT !.queueSize = c] : c \in {1, 2, 500}}

\* the server one clock reading after it started, the terminal connecting
InitOrder ==
    /\ config \in OrderConfigs
    /\ pushQueue = <<>>
    /\ isProcessingQueue = FALSE
    /\ concurrentPushCount = 0
    /\ rushHandlingStats = [totalProcessed |-> 0, totalQueued |-> 0,
                            totalDropped |-> 0, totalErrors |-> 0]
    /\ attendanceHistory = <<>>
    /\ procTimers = 0
    /\ loops = EmptyBag
    /\ inFlight = {}
    /\ retryTimers = {}
    /\ published = <<>>
    /\ attempts = <<>>
    /\ retryDelays = <<>>
    /\ paused = FALSE
    /\ now = 1
    /\ deviceLog = <<>>
    /\ handles = <<"connecting">>
    /\ deviceInstance = 1
    /\ connectionAttempts = 0
    /\ initTimers = 0
    /\ initCalls = SetToBag({[pc |-> "socket", h |-> 1]})
    /\ realTimeListenersActive = FALSE
    /\ pollingInterval = FALSE
    /\ device_connection = "none"
    /\ pollTimers = 0
    /\ isPollingInProgress = FALSE
    /\ polls = EmptyBag
    /\ lastPolledTimestamp = 0
    /\ sockets = <<>>
    /\ skippedPolls = 0

\* both producers filling a queue nothing drains: punches the terminal
\* logs before and after the callback is registered, and polls on request
NextOrder ==
    \/ \E r \in RecordTimes : DevicePunch(r)
    \/ \E r \in RecordTimes : RealTimePunch(r)
    \/ \E c \in BagToSet(initCalls) : SocketConnected(c)
    \/ \E c \in BagToSet(initCalls) : \E r \in BOOLEAN : DeviceReady(c, r)
    \/ PollNow
    \/ \E p \in BagToSet(polls) : PollFetched(p)

SpecOrder == InitOrder /\ [][NextOrder]_vars

\* poll cycles one after another over a log that grows while the clock runs
NextRepoll ==
    \/ Tick
    \/ \E r \in RecordTimes : DevicePunch(r)
    \/ \E c \in BagToSet(initCalls) : SocketConnected(c)
    \/ \E c \in BagToSet(initCalls) : \E r \in BOOLEAN : DeviceReady(c, r)
    \/ InitialPoll
    \/ PollNow
    \/ \E p \in BagToSet(polls) : PollFetched(p)

SpecRepoll == InitOrder /\ [][NextRepoll]_vars

\* retry strategies an operator has set before any record arrives: the
\* default, one more retry (the cap is reached), a delay above the cap from
\* the first retry on, and a cap at the first delay
BackoffConfigs ==
    {[DefaultConfig EXCEPT !.retryStrategy = r] :
        r \in {[maxRetries |-> 2, baseDelay |-> 1000, maxDelay |-> 5000],
               [maxRetries |-> 3, baseDelay |-> 1000, maxDelay |-> 5000],
               [maxRetries |-> 2, baseDelay |-> 3000, maxDelay |-> 5000],
               [maxRetries |-> 2, baseDelay |-> 1000, maxDelay |-> 2000]}}

InitBackoff ==
    /\ config \in BackoffConfigs
    /\ pushQueue = <<>>
    /\ isProcessingQueue = FALSE
    /\ concurrentPushCount = 0
    /\ rushHandlingStats = [totalProcessed |-> 0, totalQueued |-> 0,
                            totalDropped |-> 0, totalErrors |-> 0]
    /\ attendanceHistory = <<>>
    /\ procTimers = 0
    /\ loops = EmptyBag
    /\ inFlight = {}
    /\ retryTimers = {}
    /\ published = <<>>
    /\ attempts = <<>>
    /\ retryDelays = <<>>
    /\ paused = FALSE
    /\ now = 1
    /\ deviceLog = <<>>
    /\ handles = <<"connecting">>
    /\ deviceInstance = 1
    /\ connectionAttempts = 0
    /\ initTimers = 0
    /\ initCalls = SetToBag({[pc |-> "socket", h |-> 1]})
    /\ realTimeListenersActive = FALSE
    /\ pollingInterval = FALSE
    /\ device_connection = "none"
    /\ pollTimers = 0
    /\ isPollingInProgress = FALSE
    /\ polls = EmptyBag
    /\ lastPolledTimestamp = 1
    /\ sockets = <<>>
    /\ skippedPolls = 0

\* records arrive and their deliveries succeed or fail
NextBackoff ==
    \/ TestAutoPush(MaxItems)
    \/ ProcessQueueTimer
    \/ LoopWake
    \/ \E q \in inFlight : \E a \in DrainScripts : DeliveryDone(q, a)
    \/ \E q \in retryTimers : RetryTimer(q)

SpecBackoff == InitBackoff /\ [][NextBackoff]_vars

\* the codes a terminal may send: those of the switches and others
VerificationCodes == 0..16

PunchCodes == 0..6

\* raw records of the terminal: a punch by face at check-out with every
\* record_time, punches of every verification code and of every punch code,
\* and records without a user id, under its other name, or with no field set
RawRecords ==
    LET at == [kind |-> "text", t |-> MaxTime] IN
    [record_time : RecordTimes, user_id : {"7"}, type : {3}, state : {1}]
        \cup [record_time : {at}, user_id : {"7", ""},
              type : VerificationCodes, state : {1}]
        \cup [record_time : {at}, user_id : {"7"}, type : {3},
              state : PunchCodes]
        \cup [record_time : {at}, userId : {"8"}, type : {3}]
        \cup {[record_time |-> at], [record_time |-> [kind |-> "missing",
                                                       t |-> 0]]}

\* normalisation of the records a terminal reports: by the real-time
\* callback, by polls on request and by requests for the log, while the
\* clock advances
NextNormalize ==
    \/ \E r \in RawRecords : RealTimeLog(r, MaxRaw)
    \/ Tick
    \/ \E c \in BagToSet(initCalls) : SocketConnected(c)
    \/ \E c \in BagToSet(initCalls) : \E r \in BOOLEAN : DeviceReady(c, r)
    \/ PollNow
    \/ \E p \in BagToSet(polls) : PollFetched(p)
    \/ GetAttendance(0)

SpecNormalize == Init /\ [][NextNormalize]_vars

\* a client connecting at any moment while the link is made and both
\* producers ingest punches
NextHub ==
    \/ Connection(MaxSockets)
    \/ \E c \in BagToSet(initCalls) : SocketConnected(c)
    \/ \E c \in BagToSet(initCalls) : \E r \in BOOLEAN : DeviceReady(c, r)
    \/ \E r \in RecordTimes : RealTimePunch(r)
    \/ PollNow
    \/ \E p \in BagToSet(polls) : PollFetched(p)

SpecHub == Init /\ [][NextHub]_vars

\* a client connecting at any moment while the link is made, lost, retried
\* up to the cooldown and reinitialized
NextBroadcast ==
    \/ Connection(MaxSockets)
    \/ InitializeDevice(RetryHandles)
    \/ \E c \in BagToSet(initCalls) : SocketConnected(c)
    \/ \E c \in BagToSet(initCalls) : SocketFailed(c)
    \/ \E c \in BagToSet(initCalls) : \E r \in BOOLEAN : DeviceReady(c, r)
    \/ ReinitializeDevice

SpecBroadcast == Init /\ [][NextBroadcast]_vars

---------------------------------------------------------------------------
(* Claims *)

Max(a, b) == IF a >= b THEN a ELSE b

ItemIds == DOMAIN attempts

\* the queue items of record id that are in the pipeline
Queued(id) == {pushQueue[i] : i \in {j \in 1..Len(pushQueue) : pushQueue[j].id = id}}
Live(id) ==
    Queued(id) \cup {q \in inFlight : q.id = id}
        \cup {q \in retryTimers : q.id = id}

\* C1: in every reachable state the length of the delivery queue is at most
\* the configured capacity queueSize.
C1_QueueWithinCapacity == Len(pushQueue) <= config.queueSize

\* C2: with no draining, after N enqueues into an empty queue of capacity C
\* the length is min(N, C), totalDropped is max(0, N - C) and the queue holds
\* the min(N, C) most recently enqueued records in enqueue order; so an
\* enqueue at length C evicts exactly the front item and counts one drop, and
\* an enqueue below C evicts nothing.
C2_DropOldest ==
    LET N == rushHandlingStats.totalQueued
        C == config.queueSize
    IN  /\ Len(pushQueue) = Min(N, C)
        /\ rushHandlingStats.totalDropped = Max(0, N - C)
        /\ \A i \in 1..Len(pushQueue) :
                pushQueue[i].id = N - Len(pushQueue) + i

C2_Witness ==
    /\ config.queueSize = 500
    /\ rushHandlingStats.totalQueued = 600
    /\ Len(pushQueue) = 500
    /\ rushHandlingStats.totalDropped = 100
    /\ pushQueue[1].id = 101

\* C3: the number of deliveries in flight never exceeds the configured
\* maxConcurrentPushes.
C3_WithinConcurrencyCap ==
    concurrentPushCount <= config.maxConcurrentPushes

\* C4: reconnection is single-flighted: at most one initializeDevice chain,
\* pending on a timer or running, is active at any time.
C4_SingleReconnect == initTimers + BagCardinality(initCalls) <= 1

\* C5: when a poll cycle ends, every event it admitted has a time greater
\* than the watermark the cycle started with, and the watermark is then the
\* greatest admitted time, or is unchanged when nothing was admitted (also
\* when the cycle failed).
C5_PollCycle ==
    [][\A p \in BagToSet(polls) :
            ~BagIn(p, polls') =>
                LET n == Len(attendanceHistory') - Len(attendanceHistory)
                    admitted == {attendanceHistory'[i].t : i \in 1..n}
                IN  /\ \A t \in admitted : t > p.before
                    /\ \A t \in admitted : t <= lastPolledTimestamp'
                    /\ IF admitted = {}
                       THEN lastPolledTimestamp' = p.before
                       ELSE lastPolledTimestamp' \in admitted]_vars

\* a cycle has admitted a record and advanced the watermark to its time
C5_Witness ==
    /\ ~isPollingInProgress
    /\ Len(attendanceHistory) > 0
    /\ attendanceHistory[1].src = "poll"
    /\ lastPolledTimestamp = attendanceHistory[1].t
    /\ lastPolledTimestamp > 1

\* C6: at most one poll cycle is in flight; a call of pollForNewAttendances
\* made while one is in flight fetches nothing, admits nothing and leaves the
\* watermark and the flag alone; and the watermark changes only in a step
\* that ends a fetch.
C6_SinglePoll ==
    /\ [](BagCardinality(polls) <= 1)
    /\ [][/\ skippedPolls' > skippedPolls =>
                UNCHANGED <<polls, lastPolledTimestamp, pushQueue,
                            attendanceHistory, isPollingInProgress>>
          /\ lastPolledTimestamp' # lastPolledTimestamp =>
                BagCardinality(polls') < BagCardinality(polls)]_vars

\* a call was skipped and the cycle it found in flight is still in flight
C6_Witness ==
    /\ skippedPolls > 0
    /\ isPollingInProgress
    /\ BagCardinality(polls) = 1

\* C7: every record gets at most maxRetries + 1 delivery attempts; no item
\* in the pipeline has an attemptCount above maxRetries; and a record whose
\* terminal failure was published is nowhere in the pipeline any more.
C7_RetriesBounded ==
    \A id \in ItemIds :
        /\ attempts[id] <= config.retryStrategy.maxRetries + 1
        /\ \A q \in Live(id) :
                q.attemptCount <= config.retryStrategy.maxRetries
        /\ (\E i \in 1..Len(published[id]) : ~published[id][i])
                => Live(id) = {}

\* a record that failed twice and then succeeded, with maxRetries = 2: three
\* attempts were made
C7_Witness ==
    \E id \in ItemIds :
        /\ config.retryStrategy.maxRetries = 2
        /\ attempts[id] = 3
        /\ published[id] = <<TRUE>>

\* C8: whenever a delivery leaves the in-flight set, exactly one of these
\* happens in that step: a success message is published for the record, the
\* item is put on a retry timer, a terminal failure message is published.
C8_Outcomes(q) ==
    {k \in {"success", "retry", "terminal"} :
        \/ k = "success" /\ published'[q.id] = Append(published[q.id], TRUE)
        \/ k = "retry" /\ \E r \in retryTimers' \ retryTimers : r.id = q.id
        \/ k = "terminal"
            /\ published'[q.id] = Append(published[q.id], FALSE)}

C8_EveryDeliveryHasOutcome ==
    [][\A q \in inFlight :
            q \notin inFlight' => Cardinality(C8_Outcomes(q)) = 1]_vars

\* a record whose retries were exhausted: its terminal failure is published
C8_Witness ==
    \E id \in ItemIds :
        /\ attempts[id] = config.retryStrategy.maxRetries + 1
        /\ published[id] = <<FALSE>>
        /\ Live(id) = {}

\* C9: for a record whose delivery fails k times and then succeeds, the
\* published outcomes are k failures followed by one success: once a success
\* is published, the record has one published outcome per attempt, all but
\* the last a failure.
C9_FailuresThenSuccess ==
    \A id \in ItemIds :
        (Len(published[id]) > 0 /\ published[id][Len(published[id])])
            => published[id] = [i \in 1..attempts[id] |-> i = attempts[id]]

\* C10: while the pool is paused no item is dispatched: a step that starts
\* and ends paused makes no delivery attempt.
C10_NoDispatchWhilePaused ==
    [][(paused /\ paused')
            => \A id \in ItemIds : attempts'[id] = attempts[id]]_vars

\* the outcome of a delivery that ended in this step was counted
C11_Counted(q) ==
    \/ /\ published'[q.id] = Append(published[q.id], TRUE)
       /\ rushHandlingStats'.totalProcessed
            = rushHandlingStats.totalProcessed + 1
    \/ /\ rushHandlingStats'.totalErrors = rushHandlingStats.totalErrors + 1
       /\ \/ \E r \in retryTimers' \ retryTimers : r.id = q.id
          \/ published'[q.id] = Append(published[q.id], FALSE)

\* C11: a step that pauses the pool clears the dispatching flag and leaves
\* the queue, the items' attemptCounts, the statistics, the deliveries in
\* flight and everything else of the pipeline as they were; a delivery that
\* is in flight while the pool is paused leaves the in-flight set only with
\* its outcome handled (success counted, or retry scheduled, or terminal
\* failure published): it is never cancelled.
C11_PauseKeepsDeliveries ==
    /\ [][(~paused /\ paused') =>
            /\ ~isProcessingQueue'
            /\ UNCHANGED <<config, pushQueue, concurrentPushCount,
                           rushHandlingStats, attendanceHistory, procTimers,
                           loops, inFlight, retryTimers, published,
                           attempts>>]_vars
    /\ [][paused => \A q \in inFlight :
                        q \notin inFlight' => C11_Counted(q)]_vars

\* the pool is paused while the first delivery of a record is in flight and
\* the loop that dispatched it waits for it
C11_Witness ==
    /\ paused
    /\ ~isProcessingQueue
    /\ Len(attempts) = 1
    /\ attempts[1] = 1
    /\ \E q \in inFlight : q.id = 1
    /\ BagIn([pc |-> "batch", pending |-> {1}], loops)

\* C12: while the pool is not paused (so after a 'resume'), a queued item
\* is eventually dispatched, unless the pool is paused again or the item is
\* removed from the queue by 'clear-queue' or by the drop-oldest policy.
C12_ResumeDrains ==
    \A id \in 1..MaxItems :
        (id \in ItemIds /\ ~paused /\ Queued(id) # {})
            ~> (\/ paused
                \/ \E q \in inFlight : q.id = id
                \/ id \in ItemIds /\ Live(id) = {})

\* 'resume' has dispatched the one queued item: its delivery is in flight
\* while the timer its enqueue set is still pending
C12_Witness ==
    /\ ~paused
    /\ Len(attempts) = 1
    /\ attempts[1] = 1
    /\ procTimers = 1
    /\ \E q \in inFlight : q.id = 1

\* the link is up: deviceInstance is a handle whose socket is open and the
\* last status emitted is 'connected'
Connected ==
    /\ deviceInstance # 0
    /\ handles[deviceInstance] = "open"
    /\ device_connection = "connected"

\* C13: whenever the link is not connected, an initializeDevice invocation
\* is running or one is scheduled by a pending timer.
C13_NoTerminalState ==
    ~Connected => initTimers + BagCardinality(initCalls) >= 1

\* MAX_RETRIES attempts in a row have failed and the next call of
\* initializeDevice, which starts the cooldown, is scheduled
C13_Witness ==
    /\ connectionAttempts = MAX_RETRIES
    /\ deviceInstance = 0
    /\ initTimers = 1
    /\ initCalls = EmptyBag

\* the state of the link as section 4.5 names it: an attempt is running;
\* else the link is up; else an attempt is scheduled; else nothing
LinkState ==
    IF initCalls # EmptyBag THEN "Connecting"
    ELSE IF deviceInstance # 0 /\ handles[deviceInstance] = "open"
         THEN "Connected"
         ELSE IF initTimers > 0 THEN "Reconnecting" ELSE "Disconnected"

LinkEdges ==
    {<<"Disconnected", "Connecting">>, <<"Connecting", "Connected">>,
     <<"Connecting", "Reconnecting">>, <<"Connected", "Reconnecting">>,
     <<"Reconnecting", "Connecting">>}

\* C14: the link state changes only along the edges of section 4.5; in
\* particular no connection attempt starts while the link is Connected.
C14_LinkEdges ==
    [][LinkState' # LinkState => <<LinkState, LinkState'>> \in LinkEdges]_vars

\* a step that runs reinitializeDeviceConnection: a timer for
\* initializeDevice is added and no initializeDevice invocation moves
C15_Reinitialized ==
    /\ initTimers' = initTimers + 1
    /\ initCalls' = initCalls

\* C15: after reinitializeDeviceConnection the previous handle is
\* disconnected, no initializeDevice is running or scheduled from before,
\* and exactly one fresh attempt is pending.
C15_ReinitializeCancels ==
    [][C15_Reinitialized =>
            /\ deviceInstance' = 0
            /\ deviceInstance # 0 => handles'[deviceInstance] = "closed"
            /\ initCalls' = EmptyBag
            /\ initTimers' = 1]_vars

OpenHandles == {h \in DOMAIN handles : handles[h] = "open"}

\* C16: at most one handle is open at any time, and no handle is created
\* while one is open.
C16_OneOpenHandle ==
    /\ [](Cardinality(OpenHandles) <= 1)
    /\ [][Len(handles') > Len(handles) => OpenHandles = {}]_vars

C18_After(p, m) ==
    pollFailed([Cur EXCEPT !.polls = @ (-) SetToBag({p})], m)

\* the frame of a failed poll cycle: nothing is admitted, the watermark
\* stays, the cycle is over
C18_NothingAdmitted(s) ==
    /\ s.watermark = lastPolledTimestamp
    /\ s.history = attendanceHistory
    /\ s.queue = pushQueue
    /\ ~s.polling

\* the reconnection path was taken: the handle is released and a call of
\* initializeDevice is scheduled
C18_Reconnects(s) ==
    /\ s.initTimers = initTimers + 1
    /\ s.device = 0
    /\ s.handles[deviceInstance] = "closed"

C18_Untouched(s) ==
    /\ s.initTimers = initTimers
    /\ s.device = deviceInstance
    /\ s.handles = handles

\* C18 as stated: a poll cycle whose fetch fails reconnects when the error
\* message speaks of a timeout, a socket or a connection, and does not
\* reconnect on any other error; either way nothing is admitted and the
\* watermark stays.
C18_FetchFailure ==
    \A p \in BagToSet(polls) : \A m \in PollErrors :
        deviceInstance # 0 =>
            LET s == C18_After(p, m) IN
            /\ C18_NothingAdmitted(s)
            /\ IF \/ Includes(m, "timeout")
                  \/ Includes(m, "socket")
                  \/ Includes(m, "connection")
               THEN C18_Reconnects(s) ELSE C18_Untouched(s)

\* C18 as amended: the errors that reconnect are those whose message
\* contains ERROR_IN_UNHANDLE_CMD or UNKNOWN ERROR (protocol errors of the
\* terminal) or timeout, socket or connection; any other error reconnects
\* nothing; either way nothing is admitted and the watermark stays.
C18_FetchFailureClasses ==
    \A p \in BagToSet(polls) : \A m \in PollErrors :
        deviceInstance # 0 =>
            LET s == C18_After(p, m) IN
            /\ C18_NothingAdmitted(s)
            /\ IF \/ Includes(m, "ERROR_IN_UNHANDLE_CMD")
                  \/ Includes(m, "UNKNOWN ERROR")
                  \/ Includes(m, "timeout")
                  \/ Includes(m, "socket")
                  \/ Includes(m, "connection")
               THEN C18_Reconnects(s) ELSE C18_Untouched(s)

\* a poll cycle has failed and started a reconnection while the terminal
\* holds a record newer than the watermark, which was not admitted
C18_Witness ==
    /\ ~isPollingInProgress
    /\ polls = EmptyBag
    /\ deviceInstance = 0
    /\ initTimers = 1
    /\ attendanceHistory = <<>>
    /\ \E i \in 1..Len(deviceLog) :
            /\ deviceLog[i].record_time.kind = "text"
            /\ deviceLog[i].record_time.t > lastPolledTimestamp

\* C19: the watermark never decreases, and a step changes it only by
\* ending a poll cycle whose fetch succeeded and which admitted records, the
\* newest of them at the new watermark.
C19_WatermarkMonotone ==
    [][lastPolledTimestamp' # lastPolledTimestamp =>
            /\ lastPolledTimestamp' > lastPolledTimestamp
            /\ \E p \in BagToSet(polls) : p.open /\ ~BagIn(p, polls')
            /\ Len(attendanceHistory') > Len(attendanceHistory)
            /\ attendanceHistory'[1].src = "poll"
            /\ attendanceHistory'[1].t = lastPolledTimestamp']_vars

\* the real-time callback has recorded a punch newer than the watermark and
\* the watermark has not moved; a later poll has then admitted the record
\* again and moved it
C19_Witness ==
    /\ Len(attendanceHistory) = 2
    /\ attendanceHistory[2].src = "realtime"
    /\ attendanceHistory[1].src = "poll"
    /\ lastPolledTimestamp = attendanceHistory[1].t
    /\ lastPolledTimestamp > 1

\* occurredAt as the claim has it: the time read from record_time, or the
\* current time when there is none to read
C20_OccurredAt(recordTime) ==
    IF recordTime.kind = "text" THEN recordTime.t ELSE now

\* C20: normalisation of any raw record gives an event, with the current
\* time when record_time is missing or unreadable, and the event is put in
\* the history: by the real-time callback for the record it is given, and by
\* a poll cycle for every record of the log newer than the watermark.
C20_NormalizationNeverFails ==
    /\ realTimeListenersActive =>
            \A r \in RecordTimes :
                LET s == processAndBroadcastAttendance(
                            Cur, [record_time |-> r], now)
                IN  /\ Len(s.history) = Len(attendanceHistory) + 1
                    /\ s.history[1].t = C20_OccurredAt(r)
    /\ \A p \in BagToSet(polls) :
            p.open =>
                LET s == pollFetched(
                            [Cur EXCEPT !.polls = @ (-) SetToBag({p})],
                            deviceLog, now)
                    new == {i \in 1..Len(deviceLog) :
                                C20_OccurredAt(deviceLog[i].record_time)
                                    > lastPolledTimestamp}
                IN  Len(s.history)
                        = Len(attendanceHistory) + Cardinality(new)

\* the history entries and the queue items a step adds
C21_NewEntries == Len(attendanceHistory') - Len(attendanceHistory)
C21_NewItems == Len(attempts') - Len(attempts)

\* C21: every raw record the real-time callback is given, and every record a
\* poll cycle admits, gives exactly one history entry and exactly one queue
\* item: a step in which the terminal reports a punch to the callback adds
\* one entry and one item for it, and every step adds as many queue items as
\* history entries, one for each entry and none of them twice.
C21_ExactlyOnce ==
    [][/\ Len(deviceLog') > Len(deviceLog) =>
            /\ C21_NewEntries = 1
            /\ attendanceHistory'[1].src = "realtime"
       /\ C21_NewItems = C21_NewEntries
       /\ \A k \in 1..C21_NewEntries :
            /\ pushQueue'[Len(pushQueue') + 1 - k].record
                    = attendanceHistory'[k]
            /\ pushQueue'[Len(pushQueue') + 1 - k].id = Len(attempts') + 1 - k
       /\ \A j, k \in 1..C21_NewEntries :
            j # k => attendanceHistory'[j].raw # attendanceHistory'[k].raw]_vars

\* C22: the history never holds more than 1000 events, and an ingestion
\* that would exceed the limit drops the oldest: after it the history is the
\* new event followed by the newest events it held, up to the limit.
C22_HistoryWithinCapacity ==
    /\ [](Len(attendanceHistory) <= HistoryLimit)
    /\ [][Len(attempts') > Len(attempts) =>
            /\ attendanceHistory'[1] = pushQueue'[Len(pushQueue')].record
            /\ Len(attendanceHistory')
                    = Min(Len(attendanceHistory) + 1, HistoryLimit)
            /\ \A i \in 2..Len(attendanceHistory') :
                    attendanceHistory'[i] = attendanceHistory[i - 1]]_vars

\* C23: events enter the queue in the order the callback was given them and,
\* within one poll cycle, in ascending order of their time, and eviction
\* keeps the order of the events it leaves: after a step that admits n
\* events the back of the queue holds the newest of them in the order of
\* admission, which for a poll cycle is ascending in time, and in front of
\* them are the items that were at the back of the queue, in the order they
\* had.
C23_QueueOrder ==
    [][LET n == Len(attempts') - Len(attempts)
           m == Len(pushQueue')
           kept == Max(m - n, 0)
       IN  /\ n = Len(attendanceHistory') - Len(attendanceHistory)
           /\ m = Min(Len(pushQueue) + n, config.queueSize)
           /\ \A k \in 1..Min(n, m) :
                /\ pushQueue'[m + 1 - k].record = attendanceHistory'[k]
                /\ pushQueue'[m + 1 - k].id = Len(attempts') + 1 - k
           /\ \A k \in 1..(n - 1) :
                attendanceHistory'[k].src = "poll" =>
                    attendanceHistory'[k].t >= attendanceHistory'[k + 1].t
           /\ \A p \in 1..kept :
                pushQueue'[p] = pushQueue[Len(pushQueue) - kept + p]]_vars

\* a poll cycle has admitted two events in the reverse of their order in the
\* log, behind an event of the callback, and the queue has evicted
C23_Witness ==
    /\ Len(attendanceHistory) >= 3
    /\ attendanceHistory[1].src = "poll"
    /\ attendanceHistory[2].src = "poll"
    /\ attendanceHistory[1].raw < attendanceHistory[2].raw
    /\ attendanceHistory[1].t > attendanceHistory[2].t
    /\ attendanceHistory[3].src = "realtime"
    /\ rushHandlingStats.totalDropped > 0
    /\ Len(pushQueue) = 2
    /\ pushQueue[2].record = attendanceHistory[1]
    /\ pushQueue[1].record = attendanceHistory[2]

\* what the sink or the network may do with one payload shape: an HTTP 2xx
\* answer, another status, no answer within the timeout, a transport error
C24_Answers ==
    [1..PayloadVariations -> {"2xx", "non2xx", "timeout", "transport"}]

\* C24: whatever the sink does with the payload shapes of a delivery in
\* flight, pushToExternalAPI returns an outcome to the worker: success with
\* the first shape answered 2xx as the payload used when there is one, else
\* failure with the error of the last shape tried, and the worker counts the
\* delivery as processed or as an error accordingly and releases its slot.
C24_DeliveryOutcome ==
    \A q \in inFlight : \A a \in C24_Answers :
        LET result == pushToExternalAPI(a)
            accepted == {i \in 1..PayloadVariations : a[i] = "2xx"}
            s == processQueueItem(Cur, q, result)
        IN  /\ result.success \in BOOLEAN
            /\ result.success <=> accepted # {}
            /\ result.success =>
                    /\ result.payload \in accepted
                    /\ \A i \in accepted : result.payload <= i
            /\ ~result.success => result.error = a[PayloadVariations]
            /\ s.count = concurrentPushCount - 1
            /\ q \notin s.inFlight
            /\ s.stats.totalProcessed = rushHandlingStats.totalProcessed
                    + (IF result.success THEN 1 ELSE 0)
            /\ s.stats.totalErrors = rushHandlingStats.totalErrors
                    + (IF result.success THEN 0 ELSE 1)

\* a delivery is in flight after the delivery of another record has failed
\* once and then succeeded
C24_Witness ==
    /\ inFlight # {}
    /\ \E id \in ItemIds :
            /\ published[id] = <<TRUE>>
            /\ attempts[id] = 2
            /\ \E q \in inFlight : q.id # id

\* the events of the history made from the raw record r
C25_Events(r) ==
    {attendanceHistory[i] :
        i \in {j \in 1..Len(attendanceHistory) :
                    attendanceHistory[j].rawData = r}}

\* two events that differ at most in id and in the time of the punch
C25_SameButTime(e, f) ==
    /\ e.userId = f.userId
    /\ e.verificationMethod = f.verificationMethod
    /\ e.punchType = f.punchType

\* C25: two events normalised from the same raw record differ only in id:
\* user, time of the punch, verification method and punch type are the
\* same, whatever the raw record, also when it has no record_time.
C25_Idempotent ==
    \A r \in RawRecords : \A e, f \in C25_Events(r) :
        C25_SameButTime(e, f) /\ e.t = f.t

\* C25 as amended: two events normalised from the same raw record have the
\* same user, verification method and punch type, and the same time of the
\* punch when the raw record has a record_time.
C25_IdempotentWithTime ==
    \A r \in RawRecords : \A e, f \in C25_Events(r) :
        /\ C25_SameButTime(e, f)
        /\ r.record_time.kind # "missing" => e.t = f.t

\* a raw record with a record_time has been normalised by the real-time
\* callback and, at a later clock reading, by a poll cycle
C25_Witness ==
    /\ now > 1
    /\ \E r \in RawRecords :
            /\ r.record_time.kind = "text"
            /\ \E e, f \in C25_Events(r) : e.src = "realtime" /\ f.src = "poll"

\* the table of verification methods
C26_VerificationMethod(code) ==
    IF code = 0 THEN "Password"
    ELSE IF code = 1 THEN "Fingerprint"
    ELSE IF code = 2 THEN "Card"
    ELSE IF code = 3 THEN "Face"
    ELSE IF code \in {4, 15} THEN "Fingerprint or Password"
    ELSE "Unknown"

\* the table of punch types
C26_PunchType(code) ==
    IF code \in 0..5
    THEN <<"Check-in", "Check-out", "Break-out", "Break-in", "Overtime-in",
           "Overtime-out">>[code + 1]
    ELSE "Unknown"

\* C26: every event of the history has the verification method and the
\* punch type the tables give for the codes of its raw record, Unknown for a
\* missing code; code 3 with punch code 1 is Face at Check-out.
C26_CodeTables ==
    \A i \in 1..Len(attendanceHistory) :
        LET e == attendanceHistory[i]
            r == e.rawData
        IN  /\ e.verificationMethod =
                    IF "type" \in DOMAIN r
                    THEN C26_VerificationMethod(r.type) ELSE "Unknown"
            /\ e.punchType =
                    IF "state" \in DOMAIN r
                    THEN C26_PunchType(r.state) ELSE "Unknown"
            /\ ("type" \in DOMAIN r /\ "state" \in DOMAIN r
                    /\ r.type = 3 /\ r.state = 1)
                => e.verificationMethod = "Face" /\ e.punchType = "Check-out"

\* a punch by face at check-out is in the history
C26_Witness ==
    \E i \in 1..Len(attendanceHistory) :
        /\ {"type", "state"} \subseteq DOMAIN attendanceHistory[i].rawData
        /\ attendanceHistory[i].rawData.type = 3
        /\ attendanceHistory[i].rawData.state = 1
        /\ attendanceHistory[i].verificationMethod = "Face"
        /\ attendanceHistory[i].punchType = "Check-out"

\* the messages a step sends to client k
C27_Sent(k) == SubSeq(sockets'[k], Len(sockets[k]) + 1, Len(sockets'[k]))

\* C27: a client that connects is sent, in that step and so before any
\* later message, the current history, the statistics and the state of the
\* link; and every event admitted after it connected is sent to it as an
\* attendance_record, so that each event is in its snapshot or in its stream.
C27_SnapshotThenStream ==
    [][/\ Len(sockets') > Len(sockets) =>
            LET snapshot == sockets'[Len(sockets')] IN
                /\ \E i \in 1..Len(snapshot) :
                        snapshot[i] = [event |-> "attendance_history",
                                       data |-> attendanceHistory]
                /\ \E i \in 1..Len(snapshot) :
                        snapshot[i].event = "push_statistics"
                /\ \E i \in 1..Len(snapshot) :
                        snapshot[i].event = "device_connection"
       /\ \A k \in 1..Len(sockets) :
            \A j \in 1..(Len(attendanceHistory') - Len(attendanceHistory)) :
                \E i \in 1..Len(C27_Sent(k)) :
                    C27_Sent(k)[i] = [event |-> "attendance_record",
                                      data |-> attendanceHistory'[j]]]_vars

\* the four transitions of the link: the end of a successful attempt, the
\* end of a failed one, initializeDevice starting the cooldown, and
\* reinitializeDeviceConnection
C28_Transition ==
    \/ pollTimers' = pollTimers + 1
    \/ connectionAttempts' = connectionAttempts + 1
    \/ /\ connectionAttempts >= MAX_RETRIES
       /\ connectionAttempts' = 0
       /\ initTimers' = initTimers
    \/ C15_Reinitialized

\* C28: every transition of the link is broadcast: a step that ends a
\* connection attempt in success or in failure, starts the retry cooldown or
\* starts a reconnect sends every connected client a device_connection
\* message.
C28_TransitionsBroadcast ==
    [][C28_Transition =>
            \A k \in 1..Len(sockets) :
                /\ Len(sockets'[k]) = Len(sockets[k]) + 1
                /\ sockets'[k][Len(sockets'[k])].event
                        = "device_connection"]_vars

\* the queue as the code of a step sees it when it dispatches: with the
\* item of a retry timer that fires in the step at its back
C29_Admitted ==
    IF \E q \in retryTimers : q \notin retryTimers'
    THEN Append(pushQueue, CHOOSE q \in retryTimers : q \notin retryTimers')
    ELSE pushQueue

\* C29: a retried item goes to the back and dispatch takes from the front:
\* when a retry timer fires its item is put behind every item of the queue,
\* the items a step dispatches are the front of the queue, in a step of a
\* retry timer the front of the queue with the item at its back, and no step
\* changes the order of two items that stay in the queue; so a retried item
\* is never dispatched ahead of an item that was queued when it came back.
C29_RetryAtBack ==
    [][/\ (inFlight' \ inFlight # {} \/ C29_Admitted # pushQueue) =>
            \E n \in 0..Len(C29_Admitted) :
                /\ pushQueue' = SubSeq(C29_Admitted, n + 1, Len(C29_Admitted))
                /\ inFlight' \ inFlight = {C29_Admitted[i] : i \in 1..n}
       /\ \A i, j \in 1..Len(pushQueue) : \A k, l \in 1..Len(pushQueue') :
            (i < j /\ pushQueue[i] = pushQueue'[k]
                   /\ pushQueue[j] = pushQueue'[l]) => k < l]_vars

\* an item that has failed once is back in the queue, behind a newer item
\* that was queued before its retry timer fired
C29_Witness ==
    \E i, j \in 1..Len(pushQueue) :
        /\ i < j
        /\ pushQueue[j].attemptCount > 0
        /\ pushQueue[i].attemptCount = 0
        /\ pushQueue[i].id > pushQueue[j].id

\* C30: the k-th retry timer of an item is set to
\* min(baseDelay * 2^k, maxDelay), k being its attempt count after the
\* increment for the failure; the delays of an item never decrease and never
\* exceed maxDelay, and with the default strategy they are 2000, then 4000.
C30_Backoff ==
    \A id \in DOMAIN retryDelays :
        LET delays == retryDelays[id]
            strategy == config.retryStrategy
        IN  /\ \A k \in 1..Len(delays) :
                /\ delays[k] = Min(strategy.baseDelay * 2^k, strategy.maxDelay)
                /\ delays[k] <= strategy.maxDelay
                /\ k > 1 => delays[k - 1] <= delays[k]
            /\ \A q \in Live(id) : q.attemptCount = Len(delays)
            /\ config = DefaultConfig =>
                    \E n \in 0..2 : delays = SubSeq(<<2000, 4000>>, 1, n)

\* an item has failed as often as it is retried and its last delay was cut
\* to maxDelay
C30_Witness ==
    \E id \in DOMAIN retryDelays :
        /\ Len(retryDelays[id]) = config.retryStrategy.maxRetries
        /\ retryDelays[id][Len(retryDelays[id])] = config.retryStrategy.maxDelay
        /\ config.retryStrategy.baseDelay * 2^Len(retryDelays[id])
                > config.retryStrategy.maxDelay
        /\ Len(retryDelays[id]) > 1

\* C31: the attempt counter never exceeds MAX_RETRIES; an attempt that
\* fails is the n-th failure in a row, n the counter after it, and the next
\* attempt is set min(5000 * n, 30000) ms ahead; a call of initializeDevice
\* that finds MAX_RETRIES failures starts no attempt, sets the next call
\* 60000 ms ahead and restarts the counter from 0; an attempt that succeeds
\* resets the counter to 0.
C31_ReconnectBackoff ==
    /\ connectionAttempts <= MAX_RETRIES
    /\ \A c \in BagToSet(initCalls) :
            LET s == connectFailed(Cur, c)
                n == s.connectionAttempts
            IN  /\ n = connectionAttempts + 1
                /\ n \in 1..MAX_RETRIES
                /\ s.initTimers = initTimers + 1
                /\ s.initDelay = Min(5000 * n, 30000)
    /\ (initTimers > 0 /\ connectionAttempts >= MAX_RETRIES) =>
            LET s == initializeDevice([Cur EXCEPT !.initTimers = @ - 1])
            IN  /\ s.initCalls = initCalls
                /\ s.initTimers = initTimers
                /\ s.initDelay = 60000
                /\ s.connectionAttempts = 0
    /\ \A c \in BagToSet(initCalls) :
            c.pc = "setup" =>
                \A r \in BOOLEAN :
                    deviceReady(Cur, c, r).connectionAttempts = 0


\* C32: at most one invocation of processQueue is active (suspended at one
\* of its awaits) at any time.
C32_SingleLoop ==
    BagCardinality(loops) <= 1


\* C33: no record of the device log is admitted by two poll cycles: the
\* history holds at most one entry made by a poll for each record of the log.
C33_PollAdmitsOnce ==
    \A j, k \in 1..Len(attendanceHistory) :
        (/\ j # k
         /\ attendanceHistory[j].src = "poll"
         /\ attendanceHistory[k].src = "poll")
            => attendanceHistory[j].raw # attendanceHistory[k].raw


\* C34: a punch the real-time callback has ingested is not admitted by a
\* later poll cycle: no history entry made by a poll for a record of the
\* device log is newer than an entry the callback made for that record.
C34_PushThenPollOnce ==
    \A j, k \in 1..Len(attendanceHistory) :
        (/\ j < k
         /\ attendanceHistory[j].src = "poll"
         /\ attendanceHistory[k].src = "realtime")
            => attendanceHistory[k].rawData
                    # deviceLog[attendanceHistory[j].raw]


\* C35: a poll cycle whose fetch returns a log with a record whose
\* record_time cannot be read admits the other records of the log that are
\* newer than the watermark, advances the watermark when it admitted any,
\* and ends; so records appearing later are admitted while the malformed one
\* remains in the log.
C35_MalformedDoesNotStall ==
    \A p \in BagToSet(polls) :
        (/\ p.open
         /\ \E i \in 1..Len(deviceLog) :
                deviceLog[i].record_time.kind = "garbage")
            => LET s == pollFetched(
                            [Cur EXCEPT !.polls = @ (-) SetToBag({p})],
                            deviceLog, now)
                   new == {i \in 1..Len(deviceLog) :
                            /\ deviceLog[i].record_time.kind # "garbage"
                            /\ C20_OccurredAt(deviceLog[i].record_time)
                                    > lastPolledTimestamp}
                   added == Len(s.history) - Len(attendanceHistory)
               IN  /\ \A i \in new :
                        \E k \in 1..added :
                            /\ s.history[k].src = "poll"
                            /\ s.history[k].raw = i
                   /\ new # {} => s.watermark > lastPolledTimestamp
                   /\ ~s.polling


\* C36: unless the pool stays paused for ever, every admitted item
\* eventually leaves the pipeline (delivered, failed for good, evicted or
\* cleared): again and again no admitted item is in the queue, in flight or
\* waiting in a retry timer.
C36_EveryItemLeaves ==
    \/ <>[]paused
    \/ []<>(\A id \in ItemIds : Live(id) = {})

\* after a pause and a resume, of two admitted items one has failed for
\* good after its retry and the other was delivered, and nothing is left to
\* run
C36_Witness ==
    /\ ~paused
    /\ Len(attempts) = 2
    /\ \E i, j \in 1..2 :
            /\ published[i] = <<FALSE>> /\ attempts[i] = 2
            /\ published[j] = <<TRUE>>
    /\ \A id \in ItemIds : Live(id) = {}
    /\ loops = EmptyBag
    /\ procTimers = 0

\* the places an item is in: its occurrences in the queue, its deliveries
\* in flight and its pending retry timers
C37_Places(id) ==
    Cardinality({i \in 1..Len(pushQueue) : pushQueue[i].id = id})
        + Cardinality({q \in inFlight : q.id = id})
        + Cardinality({q \in retryTimers : q.id = id})

\* C37: every admitted item is in at most one place: once in the queue, or
\* in one delivery in flight, or in one retry timer, or in none of them
\* (finalized); the deliveries in flight are as many as concurrentPushCount
\* counts.
C37_OnePlace ==
    /\ \A id \in ItemIds : C37_Places(id) <= 1
    /\ concurrentPushCount = Cardinality(inFlight)

\* two items in different places: one waits in its retry timer after a
\* failed delivery while the other is in flight
C37_Witness ==
    /\ \E q \in retryTimers : q.id = 1 /\ q.attemptCount = 1
    /\ \E q \in inFlight : q.id = 2
    /\ C37_Places(1) = 1
    /\ C37_Places(2) = 1


\* C38: after 'clear-queue' the queue is empty and what runs next
\* dispatches no item admitted before it: a retry timer that was pending at
\* the clear does not put its item back in the queue, and a timer or a wait
\* of processQueue that ends finds nothing to dispatch.
C38_ClearIsFinal ==
    LET c == clearQueue(Cur) IN
    /\ c.queue = <<>>
    /\ c.inFlight = inFlight
    /\ \A q \in retryTimers :
            LET s == retryTimeout(c, q) IN
            /\ \A i \in 1..Len(s.queue) : s.queue[i].id # q.id
            /\ s.attempts = attempts
    /\ procTimers > 0 =>
            processQueue([c EXCEPT !.procTimers = @ - 1]).attempts = attempts
    /\ BagIn(WaitingLoop, loops) =>
            whileLoop([c EXCEPT !.loops = @ (-) SetToBag({WaitingLoop})])
                .attempts = attempts


\* C39: isPollingInProgress is true exactly while a poll cycle awaits its
\* fetch, and the cycle resets it however it ends: with records admitted or
\* none, with a record that cannot be normalised, with a fetch error, with
\* the polling timeout, with or without a reconnection; the timeout can
\* always end a cycle.
C39_FlagFollowsCycle ==
    /\ isPollingInProgress <=> polls # EmptyBag
    /\ \A p \in BagToSet(polls) :
            LET st == [Cur EXCEPT !.polls = @ (-) SetToBag({p})] IN
            /\ \A m \in PollErrors \cup {InvalidTimeValue} :
                    /\ ~pollFailed(st, m).polling
                    /\ pollFailed(st, m).polls = EmptyBag
            /\ p.open =>
                    /\ ~pollFetched(st, deviceLog, now).polling
                    /\ pollFetched(st, deviceLog, now).polls = EmptyBag
            /\ ENABLED PollFailed(p, "Polling timeout")

\* a cycle has ended by a failure that reconnects: the flag is reset, no
\* cycle is left, and initializeDevice is scheduled
C39_Witness ==
    /\ ~isPollingInProgress
    /\ polls = EmptyBag
    /\ deviceInstance = 0
    /\ initTimers = 1
    /\ realTimeListenersActive
    /\ Len(attendanceHistory) = 1


\* the parameters of the retry strategy a partial configuration names
C40_Named(c) ==
    IF "retryStrategy" \in DOMAIN c THEN DOMAIN c.retryStrategy ELSE {}

\* C40: 'update-config' with a partial configuration leaves every parameter
\* the partial configuration does not name at its previous value, the
\* parameters of the retry strategy included, sets the named ones, and
\* leaves the queue, the deliveries in flight and the statistics alone.
C40_UpdateConfigFrame ==
    \A c \in ConfigUpdates \cup RetryUpdates \cup PaceUpdates :
        LET s == updateConfig(Cur, c) IN
        /\ \A k \in DOMAIN config \ {"retryStrategy"} :
                s.config[k] = IF k \in DOMAIN c THEN c[k] ELSE config[k]
        /\ \A k \in DOMAIN config.retryStrategy :
                /\ k \in DOMAIN s.config.retryStrategy
                /\ s.config.retryStrategy[k]
                        = IF k \in C40_Named(c)
                          THEN c.retryStrategy[k]
                          ELSE config.retryStrategy[k]
        /\ s.queue = pushQueue
        /\ s.inFlight = inFlight
        /\ s.count = concurrentPushCount
        /\ s.stats = rushHandlingStats

====
